---- MODULE Spec2Model ----
(***************************************************************************)
(* Model of second_order_ode (src/src/lib.rs): the Thomas tridiagonal      *)
(* solver and the finite-difference discretiser solve_ode that drives it.  *)
(*                                                                         *)
(* f64 values are modelled as exact rationals extended with the IEEE-754   *)
(* special values: signed zero, signed infinity and NaN.  Rounding,        *)
(* overflow and underflow of finite values are not modelled, so every      *)
(* statement about finite results is a statement in exact arithmetic.      *)
(***************************************************************************)
EXTENDS Integers, Sequences, FiniteSets, TLC

(***************************************************************************)
(* Bounds of the model.                                                    *)
(***************************************************************************)
\* largest num_steps given to solve_ode
MaxSteps == 3
\* largest number of rows given directly to thomas_algorithm
MaxRows == 3

(***************************************************************************)
(* f64: [k, s, n, d] is s*n/d when k = "fin" (n = 0 is a signed zero),     *)
(* s*infinity when k = "inf", NaN when k = "nan".                          *)
(***************************************************************************)
RECURSIVE GCD(_, _)
GCD(a, b) == IF b = 0 THEN a ELSE GCD(b, a % b)

Abs(i) == IF i < 0 THEN -i ELSE i

Fin(s, n, d) ==
    IF n = 0 THEN [k |-> "fin", s |-> s, n |-> 0, d |-> 1]
    ELSE LET g == GCD(n, d) IN [k |-> "fin", s |-> s, n |-> n \div g, d |-> d \div g]

Inf(s) == [k |-> "inf", s |-> s, n |-> 0, d |-> 1]

NaN == [k |-> "nan", s |-> 1, n |-> 0, d |-> 1]

\* an integer literal, or `i as f64`
FromInt(i) == Fin(IF i < 0 THEN -1 ELSE 1, Abs(i), 1)

\* the literal p/q, q > 0
Frac(p, q) == Fin(IF p < 0 THEN -1 ELSE 1, Abs(p), q)

IsNaN(x) == x.k = "nan"

IsInf(x) == x.k = "inf"

IsFinite(x) == x.k = "fin"

IsZero(x) == x.k = "fin" /\ x.n = 0

\* unary minus
FNeg(x) == IF IsNaN(x) THEN NaN ELSE [x EXCEPT !.s = -x.s]

\* x + y
FAdd(x, y) ==
    IF IsNaN(x) \/ IsNaN(y) THEN NaN
    ELSE IF IsInf(x) /\ IsInf(y) THEN (IF x.s = y.s THEN x ELSE NaN)
    ELSE IF IsInf(x) THEN x
    ELSE IF IsInf(y) THEN y
    ELSE LET g   == GCD(x.d, y.d)
             num == x.s * x.n * (y.d \div g) + y.s * y.n * (x.d \div g)
             den == (x.d \div g) * y.d
         IN  IF num = 0
             THEN Fin(IF x.s = -1 /\ y.s = -1 THEN -1 ELSE 1, 0, 1)
             ELSE Fin(IF num < 0 THEN -1 ELSE 1, Abs(num), den)

\* x - y
FSub(x, y) == FAdd(x, FNeg(y))

\* x * y
FMul(x, y) ==
    IF IsNaN(x) \/ IsNaN(y) THEN NaN
    ELSE IF IsInf(x) \/ IsInf(y)
         THEN (IF IsZero(x) \/ IsZero(y) THEN NaN ELSE Inf(x.s * y.s))
    ELSE IF x.n = 0 \/ y.n = 0 THEN Fin(x.s * y.s, 0, 1)
    ELSE LET g1 == GCD(x.n, y.d)
             g2 == GCD(y.n, x.d)
         IN  Fin(x.s * y.s, (x.n \div g1) * (y.n \div g2),
                            (x.d \div g2) * (y.d \div g1))

\* x / y
FDiv(x, y) ==
    IF IsNaN(x) \/ IsNaN(y) THEN NaN
    ELSE IF IsInf(x) THEN (IF IsInf(y) THEN NaN ELSE Inf(x.s * y.s))
    ELSE IF IsInf(y) THEN Fin(x.s * y.s, 0, 1)
    ELSE IF y.n = 0 THEN (IF x.n = 0 THEN NaN ELSE Inf(x.s * y.s))
    ELSE IF x.n = 0 THEN Fin(x.s * y.s, 0, 1)
    ELSE LET g1 == GCD(x.n, y.n)
             g2 == GCD(x.d, y.d)
         IN  Fin(x.s * y.s, (x.n \div g1) * (y.d \div g2),
                            (x.d \div g2) * (y.n \div g1))

\* x == y on f64: NaN equals nothing, -0 equals +0
FEq(x, y) ==
    /\ ~IsNaN(x)
    /\ ~IsNaN(y)
    /\ \/ IsZero(x) /\ IsZero(y)
       \/ x = y

\* |x - y| <= p/q for finite x, y (q > 0)
Within(x, y, p, q) ==
    /\ IsFinite(x)
    /\ IsFinite(y)
    /\ LET e == FSub(FSub(x, y), Frac(p, q))
           f == FSub(FSub(y, x), Frac(p, q))
       IN  (e.s = -1 \/ e.n = 0) /\ (f.s = -1 \/ f.n = 0)

(***************************************************************************)
(* Option<f64>                                                             *)
(***************************************************************************)
None == [some |-> FALSE]

Some(x) == [some |-> TRUE, v |-> x]

\* a row tuple (lower, main, upper, solution)
Row(lower, main, upper, sol) ==
    [lower |-> lower, main |-> main, upper |-> upper, sol |-> sol]

(***************************************************************************)
(* Grid utilities                                                          *)
(***************************************************************************)
compute_dx(x_discrete, x_min, x_max) ==
    FDiv(FSub(x_max, x_min), FSub(FromInt(x_discrete), FromInt(1)))

compute_x(index, dx, x_min) == FAdd(x_min, FMul(FromInt(index), dx))

(***************************************************************************)
(* thomas_algorithm: the state of one call is                              *)
(*   index   rows consumed so far (the enumerate() counter)                *)
(*   upper_v, solve_v  the two vectors                                     *)
(*   k       entries of upper_v the reversed second loop has yet to visit  *)
(*   pc      "sweep" (first loop), "back" (second loop), "done", "panic"   *)
(*   pivots  history: the divisors used by the first loop                  *)
(*   written history: the 0-based indices assigned by the second loop      *)
(***************************************************************************)
ThomasInit ==
    [index |-> 0, upper_v |-> <<>>, solve_v |-> <<>>, k |-> 0, pc |-> "sweep",
     pivots |-> <<>>, written |-> <<>>]

Panicked(st) == [st EXCEPT !.pc = "panic"]

\* Denominator with the product added instead of subtracted
Denominator_AddsProduct(main, upper_v_prev, lower) == FAdd(main, FMul(upper_v_prev, lower))

\* the divisor of a row that has a lower entry
Denominator(main, upper_v_prev, lower) == FSub(main, FMul(upper_v_prev, lower))

\* one iteration of the first loop on the row the iterator yields
ForwardStep(st, row) ==
    IF row.lower.some
    THEN IF st.index = 0 \/ st.index > Len(st.upper_v) \/ st.index > Len(st.solve_v)
         THEN Panicked(st)
         ELSE LET upper_v_prev == st.upper_v[st.index]
                  solve_v_prev == st.solve_v[st.index]
                  denom == Denominator(row.main, upper_v_prev, row.lower.v)
              IN  [st EXCEPT
                     !.upper_v = IF row.upper.some
                                 THEN Append(@, FDiv(row.upper.v, denom))
                                 ELSE @,
                     !.solve_v = Append(@, FDiv(FSub(row.sol, FMul(row.lower.v, solve_v_prev)), denom)),
                     !.pivots = Append(@, denom),
                     !.index = @ + 1]
    ELSE IF ~row.upper.some
         THEN Panicked(st)
         ELSE [st EXCEPT
                 !.upper_v = Append(@, FDiv(row.upper.v, row.main)),
                 !.solve_v = Append(@, FDiv(row.sol, row.main)),
                 !.pivots = Append(@, row.main),
                 !.index = @ + 1]

\* ForwardEnd with the second loop running over solve_v instead of upper_v
ForwardEnd_OverSolveV(st) == [st EXCEPT !.pc = "back", !.k = Len(st.solve_v)]

\* the first loop ends when the iterator is exhausted
ForwardEnd(st) == [st EXCEPT !.pc = "back", !.k = Len(st.upper_v)]

\* the 0-based index the reversed enumeration yields when k entries remain
BackIndex(k) == k - 1

\* one iteration of the second loop
BackStep(st) ==
    LET index == BackIndex(st.k)
    IN  IF index + 2 > Len(st.solve_v) \/ index + 1 > Len(st.upper_v) \/ index < 0
        THEN Panicked(st)
        ELSE LET cprime == st.upper_v[index + 1]
             IN  [st EXCEPT
                    !.solve_v[index + 1] = FSub(st.solve_v[index + 1], FMul(cprime, st.solve_v[index + 2])),
                    !.written = Append(@, index),
                    !.k = @ - 1]

\* the second loop ends and solve_v is returned
BackEnd(st) == [st EXCEPT !.pc = "done"]

\* the first loop run to its end (or to a panic) over the rows of the iterator
RECURSIVE ForwardSweep(_, _)
ForwardSweep(st, rows) ==
    IF st.pc = "panic" THEN st
    ELSE IF st.index = Len(rows) THEN ForwardEnd(st)
    ELSE ForwardSweep(ForwardStep(st, rows[st.index + 1]), rows)

\* the second loop run to its end (or to a panic)
RECURSIVE BackSubstitution(_)
BackSubstitution(st) ==
    IF st.pc = "panic" THEN st
    ELSE IF st.k = 0 THEN BackEnd(st)
    ELSE BackSubstitution(BackStep(st))

\* a whole call: the final state, whose solve_v is the returned vector when
\* pc = "done"
thomas_algorithm(rows) == BackSubstitution(ForwardSweep(ThomasInit, rows))

(***************************************************************************)
(* solve_ode.  A coefficient closure is [c0, c1], the function             *)
(* x |-> c0 + c1*x; a is the record of the call's arguments.               *)
(***************************************************************************)
Apply(f, x) == FAdd(FromInt(f.c0), FMul(FromInt(f.c1), x))

Dx(a) == compute_dx(a.num_steps + 2, a.x_min, a.x_max)

dx_sq(a) == FMul(Dx(a), Dx(a))

dx2(a) == FMul(Dx(a), FromInt(2))

get_upper_coef(a, index) ==
    LET x == compute_x(index, Dx(a), a.x_min)
    IN  FAdd(FDiv(Apply(a.second_deriv_coef, x), dx_sq(a)),
             FDiv(Apply(a.first_deriv_coef, x), dx2(a)))

get_lower_coef(a, index) ==
    LET x == compute_x(index, Dx(a), a.x_min)
    IN  FSub(FDiv(Apply(a.second_deriv_coef, x), dx_sq(a)),
             FDiv(Apply(a.first_deriv_coef, x), dx2(a)))

get_main_coef(a, index) ==
    LET x == compute_x(index, Dx(a), a.x_min)
    IN  FSub(Apply(a.fn_coef, x),
             FDiv(FMul(Apply(a.second_deriv_coef, x), FromInt(2)), dx_sq(a)))

\* Diag with the first row's upper coefficient taken at the row's own index
Diag_UnshiftedFirstUpper(a, index) ==
    IF index = 1
    THEN [row |-> Row(None,
                      get_main_coef(a, index),
                      Some(get_upper_coef(a, index)),
                      FMul(FNeg(a.initial_condition_lower), get_lower_coef(a, index))),
          evals |-> {index}]
    ELSE IF index = a.num_steps
    THEN [row |-> Row(Some(get_lower_coef(a, index - 1)),
                      get_main_coef(a, index),
                      None,
                      FMul(FNeg(a.initial_condition_upper), get_upper_coef(a, index))),
          evals |-> {index - 1, index}]
    ELSE [row |-> Row(Some(get_lower_coef(a, index - 1)),
                      get_main_coef(a, index),
                      Some(get_upper_coef(a, index + 1)),
                      FromInt(0)),
          evals |-> {index - 1, index, index + 1}]

\* Diag with the last row's right-hand side using the shifted index of the
\* other rows' upper coefficient
Diag_ShiftedLastUpper(a, index) ==
    IF index = 1
    THEN [row |-> Row(None,
                      get_main_coef(a, index),
                      Some(get_upper_coef(a, index + 1)),
                      FMul(FNeg(a.initial_condition_lower), get_lower_coef(a, index))),
          evals |-> {index, index + 1}]
    ELSE IF index = a.num_steps
    THEN [row |-> Row(Some(get_lower_coef(a, index - 1)),
                      get_main_coef(a, index),
                      None,
                      FMul(FNeg(a.initial_condition_upper), get_upper_coef(a, index + 1))),
          evals |-> {index - 1, index, index + 1}]
    ELSE [row |-> Row(Some(get_lower_coef(a, index - 1)),
                      get_main_coef(a, index),
                      Some(get_upper_coef(a, index + 1)),
                      FromInt(0)),
          evals |-> {index - 1, index, index + 1}]

\* the closure mapped over 1..num_steps+1: the row it yields for index, and
\* the grid indices at which it evaluates the coefficient closures
Diag(a, index) ==
    IF index = 1
    THEN [row |-> Row(None,
                      get_main_coef(a, index),
                      Some(get_upper_coef(a, index + 1)),
                      FMul(FNeg(a.initial_condition_lower), get_lower_coef(a, index))),
          evals |-> {index, index + 1}]
    ELSE IF index = a.num_steps
    THEN [row |-> Row(Some(get_lower_coef(a, index - 1)),
                      get_main_coef(a, index),
                      None,
                      FMul(FNeg(a.initial_condition_upper), get_upper_coef(a, index))),
          evals |-> {index - 1, index}]
    ELSE [row |-> Row(Some(get_lower_coef(a, index - 1)),
                      get_main_coef(a, index),
                      Some(get_upper_coef(a, index + 1)),
                      FromInt(0)),
          evals |-> {index - 1, index, index + 1}]

\* the rows of the iterator diag
DiagRows(a) == [i \in 1..a.num_steps |-> Diag(a, i).row]

\* a whole call of solve_ode: the final state of the solver it drives
solve_ode(a) == thomas_algorithm(DiagRows(a))

(***************************************************************************)
(* Inputs                                                                  *)
(***************************************************************************)
\* the system of tests::test_thomas_algorithm
TestRows ==
    << Row(None, Frac(3, 10), Some(Frac(9, 10)), Frac(3, 10)),
       Row(Some(Frac(4, 10)), Frac(4, 10), Some(Frac(2, 10)), Frac(-5, 10)),
       Row(Some(Frac(6, 10)), Frac(2, 10), None, Frac(3, 10)) >>

LowerVals == {FromInt(-1), Frac(1, 2)}

MainVals == {FromInt(0), FromInt(1), FromInt(2)}

UpperVals == {FromInt(1), FromInt(2)}

SolVals == {FromInt(1)}

\* the well-formed system of n rows with the given diagonals and right-hand side
System(n, l, m, u, r) ==
    [i \in 1..n |->
        Row(IF i = 1 THEN None ELSE Some(l[i]),
            m[i],
            IF i = n THEN None ELSE Some(u[i]),
            r[i])]

ThomasCall(rows) == [fn |-> "thomas_algorithm", rows |-> rows]

CoefFns ==
    { [c0 |-> 0, c1 |-> 0], [c0 |-> 1, c1 |-> 0],
      [c0 |-> 0, c1 |-> 1], [c0 |-> 2, c1 |-> -1] }

BoundaryVals == {FromInt(0), FromInt(1), FromInt(-2)}

\* <<x_min, spacing>>: x_max is taken num_steps + 1 spacings above x_min,
\* which keeps the numerators and denominators of the exact values small
Grids == { <<FromInt(0), FromInt(1)>>, <<FromInt(-1), Frac(1, 2)>> }

OdeCall(fn2, fn1, fnc, lo, up, g, n) ==
    [fn |-> "solve_ode",
     second_deriv_coef |-> fn2, first_deriv_coef |-> fn1, fn_coef |-> fnc,
     initial_condition_lower |-> lo, initial_condition_upper |-> up,
     x_min |-> g[1], x_max |-> FAdd(g[1], FMul(FromInt(n + 1), g[2])),
     num_steps |-> n]

(***************************************************************************)
(* State machine of one call                                               *)
(***************************************************************************)
VARIABLES
    call,       \* the call being run: its function and arguments
    index,      \* rows consumed so far
    upper_v,
    solve_v,
    k,          \* entries of upper_v the second loop has yet to visit
    pc,
    pivots,     \* history: divisors of the first loop
    written,    \* history: indices assigned by the second loop
    emitted,    \* history: rows the iterator has yielded
    evals       \* history: grid indices the coefficient closures were called at

vars == <<call, index, upper_v, solve_v, k, pc, pivots, written, emitted, evals>>

State ==
    [index |-> index, upper_v |-> upper_v, solve_v |-> solve_v, k |-> k,
     pc |-> pc, pivots |-> pivots, written |-> written]

Becomes(st) ==
    /\ index' = st.index
    /\ upper_v' = st.upper_v
    /\ solve_v' = st.solve_v
    /\ k' = st.k
    /\ pc' = st.pc
    /\ pivots' = st.pivots
    /\ written' = st.written

IsOde == call.fn = "solve_ode"

\* number of items of the iterator handed to thomas_algorithm
NumRows == IF IsOde THEN call.num_steps ELSE Len(call.rows)

\* the i-th item (1-based) of the iterator
Item(i) == IF IsOde THEN Diag(call, i) ELSE [row |-> call.rows[i], evals |-> {}]

Start ==
    /\ index = 0
    /\ upper_v = <<>>
    /\ solve_v = <<>>
    /\ k = 0
    /\ pc = "sweep"
    /\ pivots = <<>>
    /\ written = <<>>
    /\ emitted = <<>>
    /\ evals = {}

\* a direct call of thomas_algorithm: the test's system, or a well-formed
\* system of 1..MaxRows rows
InitThomas ==
    /\ \/ call = ThomasCall(TestRows)
       \/ \E n \in 1..MaxRows :
             \E l \in [2..n -> LowerVals], m \in [1..n -> MainVals],
                u \in [1..(n - 1) -> UpperVals], r \in [1..n -> SolVals] :
                call = ThomasCall(System(n, l, m, u, r))
    /\ Start

\* a call of solve_ode with 1..MaxSteps interior points
Init ==
    /\ \E fn2 \in CoefFns, fn1 \in CoefFns, fnc \in CoefFns,
          lo \in BoundaryVals, up \in BoundaryVals, g \in Grids, n \in 1..MaxSteps :
          call = OdeCall(fn2, fn1, fnc, lo, up, g, n)
    /\ Start

\* an iteration of the first loop
Forward ==
    /\ pc = "sweep"
    /\ index < NumRows
    /\ LET item == Item(index + 1)
       IN  /\ Becomes(ForwardStep(State, item.row))
           /\ emitted' = Append(emitted, item.row)
           /\ evals' = evals \cup item.evals
    /\ UNCHANGED call

\* the iterator is exhausted
EndForward ==
    /\ pc = "sweep"
    /\ index = NumRows
    /\ Becomes(ForwardEnd(State))
    /\ UNCHANGED <<call, emitted, evals>>

\* an iteration of the second loop
Back ==
    /\ pc = "back"
    /\ k > 0
    /\ Becomes(BackStep(State))
    /\ UNCHANGED <<call, emitted, evals>>

\* solve_v is returned
Return ==
    /\ pc = "back"
    /\ k = 0
    /\ Becomes(BackEnd(State))
    /\ UNCHANGED <<call, emitted, evals>>

Next == Forward \/ EndForward \/ Back \/ Return

\* calls of solve_ode
Spec == Init /\ [][Next]_vars

\* direct calls of thomas_algorithm
SpecThomas == InitThomas /\ [][Next]_vars


(***************************************************************************)
(* Vocabulary of the properties                                            *)
(***************************************************************************)
\* first row has no lower, last row has no upper, every other marker present
WellFormed(rows) ==
    \A i \in 1..Len(rows) :
        /\ rows[i].lower.some <=> (i # 1)
        /\ rows[i].upper.some <=> (i # Len(rows))

\* the call is a direct call of the solver on a well-formed system
DirectWellFormed == ~IsOde /\ WellFormed(call.rows)

\* no divisor used so far by the first loop is zero
NoZeroPivot == \A i \in 1..Len(pivots) : ~IsZero(pivots[i])

\* the value of an absent or present coefficient times y[j]
Term(opt, y, j) == IF opt.some THEN FMul(opt.v, y[j]) ELSE FromInt(0)

\* row i of A*y = d holds for the vector y
RowHolds(rows, y, i) ==
    FEq(FAdd(FAdd(Term(rows[i].lower, y, i - 1), FMul(rows[i].main, y[i])),
             Term(rows[i].upper, y, i + 1)),
        rows[i].sol)

\* C2: on a well-formed system of n >= 2 rows the solver returns, and when no
\* modified pivot is zero the returned vector has n entries and satisfies
\* every row of A*y = d; on the rows of test_thomas_algorithm it is
\* [-11/7, 6/7, -15/14], within 1e-6 of [-1.5714286, 0.8571429, -1.0714286].
C2_SolvesSystem ==
    (DirectWellFormed /\ Len(call.rows) >= 2) =>
        /\ pc # "panic"
        /\ (pc = "done" /\ NoZeroPivot) =>
              /\ Len(solve_v) = Len(call.rows)
              /\ \A i \in 1..Len(call.rows) : RowHolds(call.rows, solve_v, i)
        /\ (pc = "done" /\ call.rows = TestRows) =>
              /\ solve_v = <<Frac(-11, 7), Frac(6, 7), Frac(-15, 14)>>
              /\ Within(solve_v[1], Frac(-15714286, 10000000), 1, 1000000)
              /\ Within(solve_v[2], Frac(8571429, 10000000), 1, 1000000)
              /\ Within(solve_v[3], Frac(-10714286, 10000000), 1, 1000000)

\* the test system has been solved without a zero pivot
C2_Witness ==
    /\ pc = "done"
    /\ ~IsOde
    /\ call.rows = TestRows
    /\ NoZeroPivot
    /\ Len(pivots) = 3
    /\ solve_v[1] = Frac(-11, 7)

\* C1: every call of solve_ode with num_steps >= 1 completes and returns a
\* vector of exactly num_steps entries.
C1_ReturnsNumSteps ==
    IsOde =>
        /\ pc # "panic"
        /\ pc = "done" => Len(solve_v) = call.num_steps

\* the final state of the call, computed in one go
Final == IF IsOde THEN solve_ode(call) ELSE thomas_algorithm(call.rows)

\* the same call of solve_ode with the boundary values replaced
WithBoundary(lo, up) ==
    solve_ode([call EXCEPT !.initial_condition_lower = lo,
                           !.initial_condition_upper = up])

\* C4: where the discretised system has no zero pivot, solve_ode(alpha, beta)
\* returns, and equals entry by entry
\* alpha * solve_ode(1, 0) + beta * solve_ode(0, 1).
C4_LinearInBoundary ==
    (IsOde /\ pc \in {"done", "panic"} /\ \A i \in 1..Len(pivots) : ~IsZero(pivots[i])) =>
        LET e1 == WithBoundary(FromInt(1), FromInt(0))
            e2 == WithBoundary(FromInt(0), FromInt(1))
        IN  /\ pc = "done"
            /\ e1.pc = "done"
            /\ e2.pc = "done"
            /\ Len(e1.solve_v) = Len(solve_v)
            /\ Len(e2.solve_v) = Len(solve_v)
            /\ \A i \in 1..Len(solve_v) :
                  FEq(solve_v[i],
                      FAdd(FMul(call.initial_condition_lower, e1.solve_v[i]),
                           FMul(call.initial_condition_upper, e2.solve_v[i])))

\* some modified pivot of the system is zero: m_0, or a later divisor
HasZeroPivot ==
    \/ Len(call.rows) >= 1 /\ IsZero(call.rows[1].main)
    \/ \E i \in 1..Len(pivots) : IsZero(pivots[i])

\* C5: on a well-formed system with a zero pivot the solver does not stop
\* with an error: it returns a vector as long as the input, with some
\* non-finite entry.
C5_SingularReturnsNonFinite ==
    (DirectWellFormed /\ HasZeroPivot) =>
        /\ pc # "panic"
        /\ pc = "done" =>
              /\ Len(solve_v) = Len(call.rows)
              /\ \E i \in 1..Len(solve_v) : ~IsFinite(solve_v[i])

\* C6: on a single row with neither lower nor upper the first loop sets
\* d'_0 = r_0 / m_0, produces no c', and the call returns [r_0 / m_0].
C6_SingleRow ==
    (DirectWellFormed /\ Len(call.rows) = 1) =>
        /\ pc # "panic"
        /\ (pc \in {"back", "done"}) =>
              /\ upper_v = <<>>
              /\ solve_v = <<FDiv(call.rows[1].sol, call.rows[1].main)>>

\* C7: solve_ode hands the solver exactly num_steps rows, and for every
\* num_steps >= 1 a row has no lower iff it is the first and no upper iff it
\* is the last.
C7_MarkerInvariant ==
    IsOde =>
        /\ Len(emitted) <= call.num_steps
        /\ pc \in {"back", "done"} => Len(emitted) = call.num_steps
        /\ \A i \in 1..Len(emitted) :
              /\ ~emitted[i].lower.some <=> (i = 1)
              /\ ~emitted[i].upper.some <=> (i = call.num_steps)

\* the grid and the coefficients L_i, M_i, U_i as the specification writes them
SpecDx == FDiv(FSub(call.x_max, call.x_min), FromInt(call.num_steps + 1))

SpecX(i) == FAdd(call.x_min, FMul(FromInt(i), SpecDx))

SpecA(i) == Apply(call.second_deriv_coef, SpecX(i))

SpecB(i) == Apply(call.first_deriv_coef, SpecX(i))

SpecC(i) == Apply(call.fn_coef, SpecX(i))

SpecL(i) ==
    FSub(FDiv(SpecA(i), FMul(SpecDx, SpecDx)), FDiv(SpecB(i), FMul(FromInt(2), SpecDx)))

SpecM(i) ==
    FSub(SpecC(i), FMul(FromInt(2), FDiv(SpecA(i), FMul(SpecDx, SpecDx))))

SpecU(i) ==
    FAdd(FDiv(SpecA(i), FMul(SpecDx, SpecDx)), FDiv(SpecB(i), FMul(FromInt(2), SpecDx)))

\* the row the specification gives for interior index i when num_steps >= 2
SpecRow(i) ==
    IF i = 1
    THEN Row(None, SpecM(1), Some(SpecU(2)),
             FNeg(FMul(call.initial_condition_lower, SpecL(1))))
    ELSE IF i = call.num_steps
    THEN Row(Some(SpecL(i - 1)), SpecM(i), None,
             FNeg(FMul(call.initial_condition_upper, SpecU(i))))
    ELSE Row(Some(SpecL(i - 1)), SpecM(i), Some(SpecU(i + 1)), FromInt(0))

OptEq(o1, o2) == (o1.some <=> o2.some) /\ (o1.some => FEq(o1.v, o2.v))

RowEq(r1, r2) ==
    /\ OptEq(r1.lower, r2.lower)
    /\ FEq(r1.main, r2.main)
    /\ OptEq(r1.upper, r2.upper)
    /\ FEq(r1.sol, r2.sol)

\* C8: for num_steps >= 2 the i-th row solve_ode emits is
\* <absent, M_1, U_2, -alpha*L_1> for i = 1,
\* <L_{i-1}, M_i, absent, -beta*U_i> for i = num_steps, and
\* <L_{i-1}, M_i, U_{i+1}, 0> in between.
C8_RowsAsSpecified ==
    (IsOde /\ call.num_steps >= 2) =>
        \A i \in 1..Len(emitted) : RowEq(emitted[i], SpecRow(i))

\* all rows of a call with a middle row, varying coefficients and nonzero
\* boundary values have been emitted
C8_Witness ==
    /\ IsOde
    /\ call.num_steps >= 3
    /\ Len(emitted) = call.num_steps
    /\ call.second_deriv_coef.c1 # 0
    /\ call.first_deriv_coef.c1 # 0
    /\ ~IsZero(call.initial_condition_lower)
    /\ ~IsZero(call.initial_condition_upper)
    /\ ~IsZero(emitted[1].sol)
    /\ pc = "done"

Min(a, b) == IF a < b THEN a ELSE b

\* C9: on a well-formed system of n >= 2 rows, after k rows upper_v has
\* min(k, n-1) entries and solve_v has k; after the first loop they have n-1
\* and n; the second loop assigns the indices n-2, ..., 0 in that order, every
\* entry above the next index already holding its final value; and no access
\* is out of range.
C9_IndexBookkeeping ==
    (DirectWellFormed /\ Len(call.rows) >= 2) =>
        LET n == Len(call.rows)
        IN  /\ pc # "panic"
            /\ pc = "sweep" =>
                  /\ Len(upper_v) = Min(index, n - 1)
                  /\ Len(solve_v) = index
                  /\ written = <<>>
            /\ pc \in {"back", "done"} =>
                  /\ index = n
                  /\ Len(upper_v) = n - 1
                  /\ Len(solve_v) = n
                  /\ Len(written) = n - 1 - k
                  /\ \A j \in 1..Len(written) : written[j] = n - 1 - j
                  /\ \A j \in (k + 1)..n : solve_v[j] = Final.solve_v[j]
            /\ pc = "done" => k = 0

\* the second loop is half way through a system of three rows
C9_Witness ==
    /\ DirectWellFormed
    /\ Len(call.rows) = 3
    /\ pc = "back"
    /\ written = <<1>>
    /\ k = 1

\* C10: for num_steps >= 2 the coefficient closures are only ever evaluated
\* at the interior grid indices 1..num_steps.
C10_InteriorEvaluations ==
    (IsOde /\ call.num_steps >= 2) => evals \subseteq 1..call.num_steps

\* a call with a middle row has evaluated the closures at every interior index
C10_Witness ==
    /\ IsOde
    /\ call.num_steps >= 3
    /\ pc = "done"
    /\ evals = 1..call.num_steps
====
